---- MODULE Spec2Model ----
(***************************************************************************)
(* Model of the storefront backend (FastAPI + SQLAlchemy, PostgreSQL):     *)
(* the cart router, the review router with its rating recomputation, and   *)
(* the catalog listing of the product router.                              *)
(*                                                                         *)
(* The committed contents of the tables are the state.  A handler that     *)
(* commits once is one action; a handler that commits twice, or whose      *)
(* statements interleave with those of other requests, is one action per   *)
(* statement/commit.  PostgreSQL runs every statement under READ COMMITTED *)
(* (the engine is created with the default isolation level), so each       *)
(* statement reads the committed tables.                                   *)
(*                                                                         *)
(* Specifications:                                                         *)
(*   Spec          cart handlers, one request at a time                    *)
(*   SpecCartRace  concurrent add_item requests                            *)
(*   SpecReview    create_review / delete_review, commit by commit         *)
(*   SpecCatalog   get_all_products over a changing product table          *)
(***************************************************************************)
EXTENDS Integers, Sequences, FiniteSets, TLC

VARIABLES
    categories, \* table categories: Seq of rows, the index is the primary key
    products,   \* table products: Seq of rows, the index is the primary key
    reviews,    \* table reviews: Seq of rows, the index is the primary key
    cart,       \* table cart_items: Seq of rows in primary-key order
    reqs,       \* concurrent add_item requests: position and locals of each
    inflight,   \* the create_review request between its two commits, or None
    resp        \* the response on its way to the caller; NoResp once received

vars == <<categories, products, reviews, cart, reqs, inflight, resp>>

\* No create_review request is between its two commits.
None == [product_id |-> 0, review_id |-> 0]

\* ------------------------------------------------------------------ bounds

MaxQty == 4
NumRequests == 3
MaxReviews == 3
MaxProducts == 2
MaxCategories == 4

\* The buyers that send requests.
Users == {1, 2}

\* The administrators (role "admin"); every other user is a buyer.
Admins == {3}

\* The grades the buyers give (CreateReview.grade is 1..5).
Grades == {2, 4, 5}

\* ------------------------------------------------------------ product rows

\* A rating is the exact mean as a reduced fraction <<numerator, denominator>>;
\* 0.0 is <<0, 1>>.
ZeroRating == <<0, 1>>

\* One row of table products (the columns the routers read and write).
\* price is the exact decimal of two fractional digits, held as its number of
\* hundredths.
\* tsv maps each search term to its weight in the row's text-search vector
\* (0: the term does not occur).
ProductRow(price, stock, category_id, seller_id, created_at, is_active, tsv) ==
    [price |-> price, stock |-> stock, category_id |-> category_id,
     seller_id |-> seller_id, created_at |-> created_at,
     is_active |-> is_active, rating |-> ZeroRating, tsv |-> tsv]

NoTerms == [t \in {"a", "b"} |-> 0]

\* The catalog the cart and review specifications start from, all of seller 4:
\* products 1 and 2 are active, product 3 has been soft-deleted by its seller.
SeedProducts ==
    << ProductRow(5, 1, 1, 4, 1, TRUE, NoTerms),
       ProductRow(10, 1, 1, 4, 1, TRUE, NoTerms),
       ProductRow(5, 1, 1, 4, 1, FALSE, NoTerms) >>

\* Product ids a request may name: the rows of the table and one id with no row.
RequestProductIds == 1..(Len(SeedProducts) + 1)

\* The categories every specification starts from: 1 is a root, 2 its child,
\* 3 has been soft-deleted.  parent_id 0 is NULL.
SeedCategories ==
    << [parent_id |-> 0, is_active |-> TRUE],
       [parent_id |-> 1, is_active |-> TRUE],
       [parent_id |-> 0, is_active |-> FALSE] >>

\* ----------------------------------------------------------------- helpers

\* No response is on its way: the callers send one request at a time.
NoResp == [op |-> "none", status |-> 0, user_id |-> 0, product_id |-> 0,
           quantity |-> 0]

Idle == resp.op = "none"

\* The handler's return value reaches the caller, who may send the next request.
Respond ==
    /\ ~Idle
    /\ resp' = NoResp
    /\ UNCHANGED <<categories, products, reviews, cart, reqs, inflight>>

\* s without its i-th element.
RemoveAt(s, i) == SubSeq(s, 1, i - 1) \o SubSeq(s, i + 1, Len(s))

\* ---------------------------------------------------------- cart: queries

\* The product lookup without its is_active condition.
EnsureProductAvailable_AnyRow(ps, product_id) == product_id \in DOMAIN ps

\* select(Product).where(id == product_id, is_active == True).first() is a row
EnsureProductAvailable(ps, product_id) ==
    /\ product_id \in DOMAIN ps
    /\ ps[product_id].is_active

\* The indices of the cart rows of (user_id, product_id).
CartRows(c, user_id, product_id) ==
    {i \in DOMAIN c : c[i].user_id = user_id /\ c[i].product_id = product_id}

\* .first() of the rows of (user_id, product_id): the index of the row, 0 for None.
\* The query has no ORDER BY; the heap returns the oldest row first.
GetCartItem(c, user_id, product_id) ==
    IF CartRows(c, user_id, product_id) = {} THEN 0
    ELSE CHOOSE i \in CartRows(c, user_id, product_id) :
             \A j \in CartRows(c, user_id, product_id) : i <= j

CartRow(user_id, product_id, quantity) ==
    [user_id |-> user_id, product_id |-> product_id, quantity |-> quantity]

\* The field declared with ge=0.
QuantityValid_NonNegative(quantity) == quantity >= 0

\* CartItemBase / CartItemUpdate: quantity: int = Field(ge=1)
QuantityValid(quantity) == quantity >= 1

\* The quantity of the looked-up row of (user_id, product_id), 0 without one.
RowQuantity(c, user_id, product_id) ==
    IF GetCartItem(c, user_id, product_id) = 0 THEN 0
    ELSE c[GetCartItem(c, user_id, product_id)].quantity

\* ------------------------------------------------- cart: add_item_to_cart

\* add_item_to_cart without the lookup: every call adds a row.
AddItemWrite_AlwaysInsert(c, user_id, product_id, quantity) ==
    Append(c, CartRow(user_id, product_id, quantity))

\* The branch of add_item_to_cart on the looked-up row: increment it, or add a
\* new row.
AddItemWrite(c, user_id, product_id, quantity) ==
    IF GetCartItem(c, user_id, product_id) # 0
    THEN [c EXCEPT ![GetCartItem(c, user_id, product_id)].quantity = @ + quantity]
    ELSE Append(c, CartRow(user_id, product_id, quantity))

\* POST /cart/items, run alone.  Quantities grow up to MaxQty.
AddItem(user_id, product_id, quantity) ==
    /\ (QuantityValid(quantity) /\ EnsureProductAvailable(products, product_id))
          => RowQuantity(cart, user_id, product_id) + quantity <= MaxQty
    /\ IF ~QuantityValid(quantity)
       THEN /\ resp' = [op |-> "add_item", status |-> 422, user_id |-> user_id,
                        product_id |-> product_id, quantity |-> quantity]
            /\ UNCHANGED cart
       ELSE IF ~EnsureProductAvailable(products, product_id)
       THEN /\ resp' = [op |-> "add_item", status |-> 404, user_id |-> user_id,
                        product_id |-> product_id, quantity |-> quantity]
            /\ UNCHANGED cart
       ELSE /\ cart' = AddItemWrite(cart, user_id, product_id, quantity)
            /\ resp' = [op |-> "add_item", status |-> 201, user_id |-> user_id,
                        product_id |-> product_id, quantity |-> quantity]
    /\ UNCHANGED <<categories, products, reviews, reqs, inflight>>

\* ------------------------------------------------- cart: update_cart_item

\* The assignment as an increment.
UpdateItemWrite_Increment(c, user_id, product_id, quantity) ==
    [c EXCEPT ![GetCartItem(c, user_id, product_id)].quantity = @ + quantity]

\* line 71: cart_item.quantity = payload.quantity on the looked-up row
UpdateItemWrite(c, user_id, product_id, quantity) ==
    [c EXCEPT ![GetCartItem(c, user_id, product_id)].quantity = quantity]

\* PUT /cart/items/{product_id}, run alone.
UpdateItem(user_id, product_id, quantity) ==
    /\ IF ~QuantityValid(quantity)
       THEN /\ resp' = [op |-> "update_item", status |-> 422, user_id |-> user_id,
                        product_id |-> product_id, quantity |-> quantity]
            /\ UNCHANGED cart
       ELSE IF ~EnsureProductAvailable(products, product_id)
               \/ GetCartItem(cart, user_id, product_id) = 0
       THEN /\ resp' = [op |-> "update_item", status |-> 404, user_id |-> user_id,
                        product_id |-> product_id, quantity |-> quantity]
            /\ UNCHANGED cart
       ELSE /\ cart' = UpdateItemWrite(cart, user_id, product_id, quantity)
            /\ resp' = [op |-> "update_item", status |-> 200, user_id |-> user_id,
                        product_id |-> product_id, quantity |-> quantity]
    /\ UNCHANGED <<categories, products, reviews, reqs, inflight>>

\* --------------------------------------------- cart: remove_item_from_cart

\* The delete of every row of the user.
RemoveItemWrite_AllOfUser(c, user_id, product_id) ==
    SelectSeq(c, LAMBDA row : row.user_id # user_id)

\* line 84: db.delete(cart_item) of the looked-up row
RemoveItemWrite(c, user_id, product_id) ==
    RemoveAt(c, GetCartItem(c, user_id, product_id))

\* DELETE items/{product_id} of the cart router, run alone.
RemoveItem(user_id, product_id) ==
    /\ IF GetCartItem(cart, user_id, product_id) = 0
       THEN /\ resp' = [op |-> "remove_item", status |-> 404, user_id |-> user_id,
                        product_id |-> product_id, quantity |-> 0]
            /\ UNCHANGED cart
       ELSE /\ cart' = RemoveItemWrite(cart, user_id, product_id)
            /\ resp' = [op |-> "remove_item", status |-> 204, user_id |-> user_id,
                        product_id |-> product_id, quantity |-> 0]
    /\ UNCHANGED <<categories, products, reviews, reqs, inflight>>

\* -------------------------------------------------------- cart: clear_cart

\* The delete without its WHERE clause.
ClearRows_EveryUser(c, user_id) == << >>

\* delete(CartItem).where(CartItem.user_id == current_user.id)
ClearRows(c, user_id) == SelectSeq(c, LAMBDA row : row.user_id # user_id)

\* DELETE /cart/, run alone.
ClearCart(user_id) ==
    /\ cart' = ClearRows(cart, user_id)
    /\ resp' = [op |-> "clear_cart", status |-> 204, user_id |-> user_id,
                product_id |-> 0, quantity |-> 0]
    /\ UNCHANGED <<categories, products, reviews, reqs, inflight>>

\* ------------------------------------------------------ specification Spec

Init ==
    /\ categories = SeedCategories
    /\ products = SeedProducts
    /\ reviews = << >>
    /\ cart = << >>
    /\ reqs = << >>
    /\ inflight = None
    /\ resp = NoResp

\* The callers send one request at a time: the next one once the response to
\* the last has arrived.
Next ==
    \/ Idle /\ \E u \in Users, p \in RequestProductIds, q \in (-1)..MaxQty :
                  AddItem(u, p, q)
    \/ Idle /\ \E u \in Users, p \in RequestProductIds, q \in (-1)..MaxQty :
                  UpdateItem(u, p, q)
    \/ Idle /\ \E u \in Users, p \in RequestProductIds : RemoveItem(u, p)
    \/ Idle /\ \E u \in Users : ClearCart(u)
    \/ Respond

Spec == Init /\ [][Next]_vars

\* ------------------------------------- concurrent add_item_to_cart requests

\* The store-level uniqueness constraint on cart_items (user_id, product_id):
\* an INSERT of a key a committed row already holds is refused.
UniqueViolation(c, user_id, product_id) == CartRows(c, user_id, product_id) # {}

\* The requests of the race: NumRequests add_item calls, each with its payload,
\* none started.
RaceRequests ==
    [1..NumRequests ->
        [user_id : Users, product_id : {1, Len(SeedProducts)}, quantity : {1, 2},
         pc : {"start"}, item : {0}, seen : {0}]]

\* line 47: _ensure_product_available; HTTPException(404) ends the request.
AddEnsure(r) ==
    /\ reqs[r].pc = "start"
    /\ reqs' = [reqs EXCEPT ![r].pc =
                  IF EnsureProductAvailable(products, reqs[r].product_id)
                  THEN "ensured" ELSE "not_found"]
    /\ UNCHANGED <<categories, products, reviews, cart, inflight, resp>>

\* line 49: _get_cart_item loads the committed row into the session (item: its
\* index, 0 for None; seen: the quantity loaded).
AddLookup(r) ==
    /\ reqs[r].pc = "ensured"
    /\ reqs' = [reqs EXCEPT
                  ![r].pc = "looked",
                  ![r].item = GetCartItem(cart, reqs[r].user_id, reqs[r].product_id),
                  ![r].seen = RowQuantity(cart, reqs[r].user_id, reqs[r].product_id)]
    /\ UNCHANGED <<categories, products, reviews, cart, inflight, resp>>

\* lines 51-57: the branch on the loaded row, flushed and committed by
\* db.commit().  cart_item.quantity += q is computed in the session from the
\* loaded value and written as UPDATE ... SET quantity = <value>; the INSERT of
\* the other branch waits for a concurrent insert of its key to commit and then
\* fails on the constraint.  The handler catches nothing, so the IntegrityError
\* leaves it as a server error.
AddCommit(r) ==
    /\ reqs[r].pc = "looked"
    /\ IF reqs[r].item # 0
       THEN /\ cart' = [cart EXCEPT ![reqs[r].item].quantity =
                                        reqs[r].seen + reqs[r].quantity]
            /\ reqs' = [reqs EXCEPT ![r].pc = "done"]
       ELSE IF UniqueViolation(cart, reqs[r].user_id, reqs[r].product_id)
       THEN /\ reqs' = [reqs EXCEPT ![r].pc = "integrity_error"]
            /\ UNCHANGED cart
       ELSE /\ cart' = Append(cart, CartRow(reqs[r].user_id, reqs[r].product_id,
                                            reqs[r].quantity))
            /\ reqs' = [reqs EXCEPT ![r].pc = "done"]
    /\ UNCHANGED <<categories, products, reviews, inflight, resp>>

InitCartRace ==
    /\ categories = SeedCategories
    /\ products = SeedProducts
    /\ reviews = << >>
    /\ cart = << >>
    /\ reqs \in RaceRequests
    /\ inflight = None
    /\ resp = NoResp

NextCartRace ==
    \/ \E r \in 1..NumRequests : AddEnsure(r)
    \/ \E r \in 1..NumRequests : AddLookup(r)
    \/ \E r \in 1..NumRequests : AddCommit(r)

SpecCartRace == InitCartRace /\ [][NextCartRace]_vars

Finished(r) == reqs[r].pc \in {"done", "not_found", "integrity_error"}

\* C1: when N add_item requests for the same (user, product) with quantity 1
\* each run concurrently against an active product with no cart row, then once
\* all have finished the cart holds exactly one row of that (user, product) and
\* its quantity is N.
C1_ConcurrentAddsConverge ==
    ( /\ \A r \in 1..NumRequests :
            /\ Finished(r)
            /\ reqs[r].quantity = 1
            /\ reqs[r].user_id = reqs[1].user_id
            /\ reqs[r].product_id = reqs[1].product_id
      /\ EnsureProductAvailable(products, reqs[1].product_id) )
    => /\ Cardinality(CartRows(cart, reqs[1].user_id, reqs[1].product_id)) = 1
       /\ RowQuantity(cart, reqs[1].user_id, reqs[1].product_id) = NumRequests

\* C2: no add_item request for an existing active product ends in an error
\* shown to the caller because a concurrent add_item inserted the row of the
\* same (user, product) first: the constraint violation is retried as an
\* increment.
C2_NoConflictError ==
    \A r \in 1..NumRequests :
        EnsureProductAvailable(products, reqs[r].product_id)
            => reqs[r].pc # "integrity_error"

\* ------------------------------------------------------------- claims: cart

\* C3: after any sequence of add_item, update_item, remove_item and clear_cart
\* calls the cart table holds at most one row per (user_id, product_id), and an
\* accepted add_item of quantity q leaves exactly one row of its (user, product)
\* whose quantity is the quantity before the call plus q: two successive calls
\* with q1 and q2 on a product not yet in the cart leave one row of q1 + q2.
C3_OneRowPerKey ==
    [][ /\ \A u \in Users, p \in RequestProductIds :
              Cardinality(CartRows(cart', u, p)) <= 1
        /\ (resp'.op = "add_item" /\ resp'.status = 201) =>
              /\ Cardinality(CartRows(cart', resp'.user_id, resp'.product_id)) = 1
              /\ RowQuantity(cart', resp'.user_id, resp'.product_id)
                   = RowQuantity(cart, resp'.user_id, resp'.product_id)
                       + resp'.quantity
              /\ Len(cart') = Len(cart)
                   + (IF CartRows(cart, resp'.user_id, resp'.product_id) = {}
                      THEN 1 ELSE 0) ]_vars

\* C3 witness: the second of two add_item calls of quantity 2 has incremented
\* the row the first one created: one row of quantity 4.
C3_Witness ==
    /\ resp.op = "add_item" /\ resp.status = 201 /\ resp.quantity = 2
    /\ Len(cart) = 1
    /\ RowQuantity(cart, resp.user_id, resp.product_id) = 4

\* ------------------------------------------------- reviews: rating update

RECURSIVE Gcd(_, _)
Gcd(a, b) == IF b = 0 THEN a ELSE Gcd(b, a % b)

\* The exact quotient n / d as a reduced fraction.
Fraction(n, d) == <<n \div Gcd(n, d), d \div Gcd(n, d)>>

RECURSIVE SumGrades(_, _)
SumGrades(rs, idx) ==
    IF idx = {} THEN 0
    ELSE LET i == CHOOSE j \in idx : TRUE
         IN rs[i].grade + SumGrades(rs, idx \ {i})

\* The rows select(func.avg(Review.grade)).where(Review.product_id == product_id)
\* averages: the WHERE clause names the product and nothing else.
RatedReviews(rs, product_id) ==
    {i \in DOMAIN rs : rs[i].product_id = product_id}

\* avg_rating = result.scalar() or 0.0: avg over no rows is NULL.
AvgRating(rs, product_id) ==
    IF RatedReviews(rs, product_id) = {} THEN ZeroRating
    ELSE Fraction(SumGrades(rs, RatedReviews(rs, product_id)),
                  Cardinality(RatedReviews(rs, product_id)))

\* update_product_rating: the product is loaded by primary key and its rating
\* overwritten; the commit is the caller action's.
UpdateProductRating(ps, rs, product_id) ==
    [ps EXCEPT ![product_id].rating = AvgRating(rs, product_id)]

ReviewRow(product_id, grade, user_id) ==
    [product_id |-> product_id, grade |-> grade, user_id |-> user_id,
     is_active |-> TRUE]

Role(user_id) == IF user_id \in Admins THEN "admin" ELSE "buyer"

\* --------------------------------------------------- reviews: create_review

\* lines 58-66: the product check, then the review is added and committed
\* (db.commit() on line 65): the first transaction of the request.
CreateReviewInsert(user_id, product_id, grade) ==
    /\ inflight = None
    /\ Len(reviews) < MaxReviews
    /\ IF ~EnsureProductAvailable(products, product_id)
       THEN /\ resp' = [op |-> "create_review", status |-> 404,
                        product_id |-> product_id, review_id |-> 0]
            /\ UNCHANGED <<reviews, inflight>>
       ELSE /\ reviews' = Append(reviews, ReviewRow(product_id, grade, user_id))
            /\ inflight' = [product_id |-> product_id,
                            review_id |-> Len(reviews) + 1]
            /\ UNCHANGED resp
    /\ UNCHANGED <<categories, products, cart, reqs>>

\* line 68: update_product_rating and its own db.commit(): the second
\* transaction of the request, after which the review is returned.
CreateReviewRating ==
    /\ inflight # None
    /\ products' = UpdateProductRating(products, reviews, inflight.product_id)
    /\ resp' = [op |-> "create_review", status |-> 201,
                product_id |-> inflight.product_id,
                review_id |-> inflight.review_id]
    /\ inflight' = None
    /\ UNCHANGED <<categories, reviews, cart, reqs>>

\* --------------------------------------------------- reviews: delete_review

\* The whole handler: the flag is set in the session, flushed by the avg query
\* of update_product_rating and committed with the rating by its db.commit().
DeleteReview(user_id, review_id) ==
    /\ inflight = None
    /\ IF ~(review_id \in DOMAIN reviews /\ reviews[review_id].is_active)
       THEN /\ resp' = [op |-> "delete_review", status |-> 404,
                        product_id |-> 0, review_id |-> review_id]
            /\ UNCHANGED <<reviews, products>>
       ELSE IF reviews[review_id].user_id # user_id /\ Role(user_id) # "admin"
       THEN /\ resp' = [op |-> "delete_review", status |-> 403,
                        product_id |-> 0, review_id |-> review_id]
            /\ UNCHANGED <<reviews, products>>
       ELSE /\ reviews' = [reviews EXCEPT ![review_id].is_active = FALSE]
            /\ products' = UpdateProductRating(products, reviews',
                                               reviews[review_id].product_id)
            /\ resp' = [op |-> "delete_review", status |-> 200,
                        product_id |-> reviews[review_id].product_id,
                        review_id |-> review_id]
    /\ UNCHANGED <<categories, cart, reqs, inflight>>

\* ------------------------------------------------ specification SpecReview

\* One request at a time; create_review is between its commits while inflight
\* names it.
NextReview ==
    \/ Idle /\ \E u \in Users, p \in RequestProductIds, g \in Grades :
                  CreateReviewInsert(u, p, g)
    \/ Idle /\ \E u \in Users \cup Admins, r \in 1..(MaxReviews + 1) :
                  DeleteReview(u, r)
    \/ CreateReviewRating
    \/ Respond

SpecReview == Init /\ [][NextReview]_vars

\* ---------------------------------------------------------- claims: reviews

\* The reviews of a product with is_active = true.
ActiveReviews(rs, product_id) ==
    {i \in DOMAIN rs : rs[i].product_id = product_id /\ rs[i].is_active}

\* C4: after any sequence of non-overlapping create_review and delete_review
\* requests, the stored rating of every product with at least one active
\* review is the arithmetic mean of the grades of its active reviews;
\* soft-deleted reviews do not count.
C4_RatingIsMeanOfActive ==
    inflight = None =>
        \A p \in DOMAIN products :
            ActiveReviews(reviews, p) # {} =>
                products[p].rating =
                    Fraction(SumGrades(reviews, ActiveReviews(reviews, p)),
                             Cardinality(ActiveReviews(reviews, p)))

\* C5: when delete_review soft-deletes the last active review of a product,
\* the product's stored rating becomes 0.0.
C5_LastDeleteGivesZero ==
    ( /\ resp.op = "delete_review" /\ resp.status = 200
      /\ ActiveReviews(reviews, resp.product_id) = {} )
    => products[resp.product_id].rating = ZeroRating

\* C6: create_review writes the new review and the recomputed rating in one
\* transaction: the commit that makes the new review part of the store also
\* stores the rating recomputed with it.
C6_ReviewAndRatingTogether ==
    [][ Len(reviews') > Len(reviews) =>
          products'[reviews'[Len(reviews')].product_id].rating
            = AvgRating(reviews', reviews'[Len(reviews')].product_id) ]_vars

\* ------------------------------------------------ products: create / delete

\* The sellers that send requests.
Sellers == {4, 5}

\* Weights of the search terms in a row's tsv (from its name and description).
Tsv(a, b) == [t \in {"a", "b"} |-> IF t = "a" THEN a ELSE b]

\* The (seller, ProductCreate payload) pairs the sellers submit.  Category 3 is
\* the soft-deleted one.
Submissions ==
    { [seller_id |-> 4, price |-> 5, stock |-> 0, category_id |-> 1,
       tsv |-> Tsv(1, 0)],
      [seller_id |-> 4, price |-> 10, stock |-> 2, category_id |-> 2,
       tsv |-> Tsv(1, 1)],
      [seller_id |-> 5, price |-> 10, stock |-> 2, category_id |-> 1,
       tsv |-> Tsv(2, 0)],
      [seller_id |-> 5, price |-> 5, stock |-> 1, category_id |-> 3,
       tsv |-> Tsv(0, 1)] }

\* select(Category).where(id == category_id, is_active == True).first() is a row
CategoryActive(cs, category_id) ==
    /\ category_id \in DOMAIN cs
    /\ cs[category_id].is_active

\* The response of a product write: the seller that asked, the product and the
\* category the request named (0: none).
ProductResp(op, status, seller_id, product_id, category_id) ==
    [op |-> op, status |-> status, seller_id |-> seller_id,
     product_id |-> product_id, category_id |-> category_id]

\* POST /products/.  created_at is the time of the insert: the n-th row is
\* created at time n.
CreateProduct(sub) ==
    /\ Len(products) < MaxProducts
    /\ IF ~CategoryActive(categories, sub.category_id)
       THEN /\ resp' = ProductResp("create_product", 400, sub.seller_id, 0,
                                   sub.category_id)
            /\ UNCHANGED products
       ELSE /\ products' = Append(products,
                ProductRow(sub.price, sub.stock, sub.category_id, sub.seller_id,
                           Len(products) + 1, TRUE, sub.tsv))
            /\ resp' = ProductResp("create_product", 201, sub.seller_id,
                                   Len(products) + 1, sub.category_id)
    /\ UNCHANGED <<categories, reviews, cart, reqs, inflight>>

\* lines 221-223 and 262-265: the row update_product and delete_product work
\* on is select(Product).where(id == product_id, is_active == True).first().
LoadProduct(ps, product_id) == EnsureProductAvailable(ps, product_id)

\* A payload that carries is_active = True with the other columns.
UpdateProductWrite_Reactivates(ps, product_id, sub) ==
    [ps EXCEPT ![product_id] =
        [@ EXCEPT !.price = sub.price, !.stock = sub.stock,
                  !.category_id = sub.category_id, !.tsv = sub.tsv,
                  !.is_active = TRUE]]

\* A payload that carries the default rating with the other columns.
UpdateProductWrite_ResetsRating(ps, product_id, sub) ==
    [ps EXCEPT ![product_id] =
        [@ EXCEPT !.price = sub.price, !.stock = sub.stock,
                  !.category_id = sub.category_id, !.tsv = sub.tsv,
                  !.rating = ZeroRating]]

\* line 243: update(Product).where(id == product_id).values(**model_dump()):
\* the payload's columns replace the row's, the others stay.
UpdateProductWrite(ps, product_id, sub) ==
    [ps EXCEPT ![product_id] =
        [@ EXCEPT !.price = sub.price, !.stock = sub.stock,
                  !.category_id = sub.category_id, !.tsv = sub.tsv]]

\* PUT /products/{product_id} by seller sub.seller_id with payload sub.
UpdateProduct(sub, product_id) ==
    /\ IF ~LoadProduct(products, product_id)
       THEN /\ resp' = ProductResp("update_product", 404, sub.seller_id,
                                   product_id, sub.category_id)
            /\ UNCHANGED products
       ELSE IF products[product_id].seller_id # sub.seller_id
       THEN /\ resp' = ProductResp("update_product", 403, sub.seller_id,
                                   product_id, sub.category_id)
            /\ UNCHANGED products
       ELSE IF ~CategoryActive(categories, sub.category_id)
       THEN /\ resp' = ProductResp("update_product", 400, sub.seller_id,
                                   product_id, sub.category_id)
            /\ UNCHANGED products
       ELSE /\ products' = UpdateProductWrite(products, product_id, sub)
            /\ resp' = ProductResp("update_product", 200, sub.seller_id,
                                   product_id, sub.category_id)
    /\ UNCHANGED <<categories, reviews, cart, reqs, inflight>>

\* DELETE /products/{product_id}: the soft delete by the product's seller.
DeleteProduct(seller_id, product_id) ==
    /\ IF ~LoadProduct(products, product_id)
       THEN /\ resp' = ProductResp("delete_product", 404, seller_id,
                                   product_id, 0)
            /\ UNCHANGED products
       ELSE IF products[product_id].seller_id # seller_id
       THEN /\ resp' = ProductResp("delete_product", 403, seller_id,
                                   product_id, 0)
            /\ UNCHANGED products
       ELSE /\ products' = [products EXCEPT ![product_id].is_active = FALSE]
            /\ resp' = ProductResp("delete_product", 200, seller_id,
                                   product_id, 0)
    /\ UNCHANGED <<categories, reviews, cart, reqs, inflight>>

\* ------------------------------------------------ products: get_all_products

\* An optional integer query parameter that was not sent (Query(None)).
Absent == -1

\* The query strings: sequences of characters; << >> is a search that was not
\* sent (Query(None, min_length=1) refuses the empty string).
Searches == { << >>, <<" ">>, <<"a">>, <<" ", "b">> }

\* The listing requests.
Queries ==
    [page : 1..(MaxProducts + 1), page_size : 1..MaxProducts,
     category_id : {Absent, 1},
     search : Searches,
     min_price : {Absent, 10},
     max_price : {Absent, 5, 10},
     in_stock : {"None", "true", "false"},
     created_at : {Absent, 2},
     seller_id : {Absent, 4}]

RECURSIVE LStrip(_)
LStrip(s) == IF s # << >> /\ Head(s) = " " THEN LStrip(Tail(s)) ELSE s

RECURSIVE RStrip(_)
RStrip(s) ==
    IF s # << >> /\ s[Len(s)] = " " THEN RStrip(SubSeq(s, 1, Len(s) - 1)) ELSE s

\* search.strip()
Strip(s) == LStrip(RStrip(s))

\* func.websearch_to_tsquery('english', search_value): the terms of the text,
\* all of which a row must hold.
TsQuery(search_value) == {search_value[i] : i \in DOMAIN search_value} \ {" "}

RECURSIVE SumWeights(_, _)
SumWeights(tsv, terms) ==
    IF terms = {} THEN 0
    ELSE LET t == CHOOSE x \in terms : TRUE
         IN tsv[t] + SumWeights(tsv, terms \ {t})

\* func.ts_rank_cd(Product.tsv, ts_query): grows with the weight of the
\* query's terms in the row.
TsRank(row, terms) == SumWeights(row.tsv, terms)

\* The price check with its comparison turned around.
PriceRangeInvalid_Swapped(q) ==
    q.min_price # Absent /\ q.max_price # Absent /\ q.min_price < q.max_price

\* lines 77-79: both bounds sent and min_price > max_price.
PriceRangeInvalid(q) ==
    q.min_price # Absent /\ q.max_price # Absent /\ q.min_price > q.max_price

\* lines 84-99: the filter list, one entry per parameter that was sent.
BaseFilters(q) ==
    << [col |-> "is_active", val |-> TRUE] >>
    \o (IF q.category_id # Absent
        THEN << [col |-> "category_id", val |-> q.category_id] >> ELSE << >>)
    \o (IF q.min_price # Absent
        THEN << [col |-> "price_ge", val |-> q.min_price] >> ELSE << >>)
    \o (IF q.max_price # Absent
        THEN << [col |-> "price_le", val |-> q.max_price] >> ELSE << >>)
    \o (IF q.in_stock # "None"
        THEN << [col |-> IF q.in_stock = "true" THEN "stock_gt" ELSE "stock_eq",
                 val |-> 0] >> ELSE << >>)
    \o (IF q.seller_id # Absent
        THEN << [col |-> "seller_id", val |-> q.seller_id] >> ELSE << >>)
    \o (IF q.created_at # Absent
        THEN << [col |-> "created_at_ge", val |-> q.created_at] >> ELSE << >>)

\* lines 105-107: rank_col is set when the search has text after strip().
HasRank(q) == q.search # << >> /\ Strip(q.search) # << >>

\* lines 108-109: the filter list after the search branch.
AllFilters(q) ==
    IF HasRank(q)
    THEN Append(BaseFilters(q), [col |-> "tsv", val |-> TsQuery(Strip(q.search))])
    ELSE BaseFilters(q)

\* One entry of the filter list on one row.
FilterHolds(row, f) ==
    CASE f.col = "is_active" -> row.is_active = f.val
      [] f.col = "category_id" -> row.category_id = f.val
      [] f.col = "price_ge" -> row.price >= f.val
      [] f.col = "price_le" -> row.price <= f.val
      [] f.col = "stock_gt" -> row.stock > f.val
      [] f.col = "stock_eq" -> row.stock = f.val
      [] f.col = "seller_id" -> row.seller_id = f.val
      [] f.col = "created_at_ge" -> row.created_at >= f.val
      [] f.col = "tsv" -> \A t \in f.val : row.tsv[t] > 0

\* .where(*filters): the ids of the rows on which every entry holds.
Where(ps, filters) ==
    {i \in DOMAIN ps : \A k \in DOMAIN filters : FilterHolds(ps[i], filters[k])}

\* total_stmt as built on line 102 and never rebuilt in the search branch.
TotalFilters_BeforeSearch(q) == BaseFilters(q)

\* lines 102-114: total_stmt is built from the filter list before the search
\* branch and rebuilt in it.
TotalFilters(q) == AllFilters(q)

\* line 114: total = await db.scalar(total_stmt) or 0
TotalCount(ps, q) == Cardinality(Where(ps, TotalFilters(q)))

\* ORDER BY desc(rank) alone: rows of equal rank come in an order the store
\* chooses, here the newest first.
OrderedBefore_NoTieBreak(ps, q, i, j) ==
    IF HasRank(q)
    THEN \/ TsRank(ps[i], TsQuery(Strip(q.search)))
              > TsRank(ps[j], TsQuery(Strip(q.search)))
         \/ /\ TsRank(ps[i], TsQuery(Strip(q.search)))
                 = TsRank(ps[j], TsQuery(Strip(q.search)))
            /\ i > j
    ELSE i < j

\* ORDER BY of the products statement: desc(rank), id with a rank column
\* (line 121), id alone without (line 134).
OrderedBefore(ps, q, i, j) ==
    IF HasRank(q)
    THEN \/ TsRank(ps[i], TsQuery(Strip(q.search)))
              > TsRank(ps[j], TsQuery(Strip(q.search)))
         \/ /\ TsRank(ps[i], TsQuery(Strip(q.search)))
                 = TsRank(ps[j], TsQuery(Strip(q.search)))
            /\ i < j
    ELSE i < j

\* The ids of set ids in the order of the statement.
RECURSIVE OrderBy(_, _, _)
OrderBy(ps, q, ids) ==
    IF ids = {} THEN << >>
    ELSE LET first == CHOOSE i \in ids :
                          \A j \in ids \ {i} : OrderedBefore(ps, q, i, j)
         IN <<first>> \o OrderBy(ps, q, ids \ {first})

\* The offset counted from page 0.
Offset_PageTimesSize(q) == q.page * q.page_size

\* .offset((page - 1) * page_size)
Offset(q) == (q.page - 1) * q.page_size

\* .limit(page_size)
Limit(q) == q.page_size

\* .offset(...).limit(...) of an ordered result.
OffsetLimit(rows, offset, limit) ==
    SubSeq(rows, offset + 1,
           IF offset + limit < Len(rows) THEN offset + limit ELSE Len(rows))

\* The response of GET /products/ on table ps: the rows are named by their ids;
\* queries counts the statements sent to the store.
ListProducts(ps, q) ==
    IF PriceRangeInvalid(q)
    THEN [op |-> "get_all_products", status |-> 400, q |-> q, items |-> << >>,
          total |-> 0, queries |-> 0]
    ELSE [op |-> "get_all_products", status |-> 200, q |-> q,
          items |-> OffsetLimit(OrderBy(ps, q, Where(ps, AllFilters(q))),
                                Offset(q), Limit(q)),
          total |-> TotalCount(ps, q),
          queries |-> 2]

\* GET /products/
GetAllProducts(q) ==
    /\ resp' = ListProducts(products, q)
    /\ UNCHANGED <<categories, products, reviews, cart, reqs, inflight>>

\* ----------------------------------------------- specification SpecCatalog

InitCatalog ==
    /\ categories = SeedCategories
    /\ products = << >>
    /\ reviews = << >>
    /\ cart = << >>
    /\ reqs = << >>
    /\ inflight = None
    /\ resp = NoResp

NextCatalog ==
    \/ Idle /\ \E sub \in Submissions : CreateProduct(sub)
    \/ Idle /\ \E u \in Sellers, p \in 1..(MaxProducts + 1) : DeleteProduct(u, p)
    \/ Idle /\ \E q \in Queries : GetAllProducts(q)
    \/ Respond

SpecCatalog == InitCatalog /\ [][NextCatalog]_vars

\* ---------------------------------------------------------- claims: catalog

\* The search of q has text after trimming.
SearchGiven(q) == Strip(q.search) # << >>

\* The active products that satisfy every filter present in q.
MatchingProducts(ps, q) ==
    {i \in DOMAIN ps :
        /\ ps[i].is_active
        /\ q.category_id # Absent => ps[i].category_id = q.category_id
        /\ q.min_price # Absent => ps[i].price >= q.min_price
        /\ q.max_price # Absent => ps[i].price <= q.max_price
        /\ q.in_stock = "true" => ps[i].stock > 0
        /\ q.in_stock = "false" => ps[i].stock = 0
        /\ q.seller_id # Absent => ps[i].seller_id = q.seller_id
        /\ q.created_at # Absent => ps[i].created_at >= q.created_at
        /\ SearchGiven(q) =>
              \A k \in DOMAIN q.search :
                  q.search[k] # " " => ps[i].tsv[q.search[k]] > 0}

\* The order of the listing: rank descending then id ascending under a search,
\* id ascending without.
ListedBefore(ps, q, i, j) ==
    IF SearchGiven(q)
    THEN \/ TsRank(ps[i], TsQuery(q.search)) > TsRank(ps[j], TsQuery(q.search))
         \/ /\ TsRank(ps[i], TsQuery(q.search)) = TsRank(ps[j], TsQuery(q.search))
            /\ i < j
    ELSE i < j

Listed == resp.op = "get_all_products" /\ resp.status = 200

\* C7: for every combination of the optional filters, total is the number of
\* active products that satisfy every present filter, and it is the same for
\* every page and page_size.
C7_TotalIsMatchCount ==
    Listed =>
        /\ resp.total = Cardinality(MatchingProducts(products, resp.q))
        /\ \A pg \in 1..(MaxProducts + 1), sz \in 1..MaxProducts :
              TotalCount(products, [resp.q EXCEPT !.page = pg, !.page_size = sz])
                = resp.total

\* C7 witness: a listing with a search and a category filter whose total counts
\* one of two products and exceeds the items of the page asked for.
C7_Witness ==
    /\ Listed
    /\ SearchGiven(resp.q) /\ resp.q.category_id # Absent
    /\ Len(products) = 2 /\ resp.total = 1 /\ resp.items = << >>

\* C8: a listing request with both price bounds present and min_price >
\* max_price fails with a validation error before any query is sent to the
\* store.
C8_InvalidRangeRejected ==
    ( /\ resp.op = "get_all_products"
      /\ resp.q.min_price # Absent /\ resp.q.max_price # Absent
      /\ resp.q.min_price > resp.q.max_price )
    => /\ resp.status = 400
       /\ resp.queries = 0
       /\ resp.items = << >>

\* C8 witness: min_price 10 with max_price 5 has been refused on a table that
\* holds products.
C8_Witness ==
    /\ resp.op = "get_all_products" /\ resp.status = 400
    /\ resp.q.min_price = 10 /\ resp.q.max_price = 5
    /\ \E i \in DOMAIN products : products[i].is_active

\* C9: the items are in id order without a search and in rank-descending,
\* then id-ascending order with one, so products of equal rank come in
\* ascending id order; the order is total, so the same call on the same table
\* returns the same items in the same order.
C9_ItemsOrdered ==
    Listed =>
        /\ \A k \in 1..(Len(resp.items) - 1) :
              ListedBefore(products, resp.q, resp.items[k], resp.items[k + 1])
        /\ \A i, j \in MatchingProducts(products, resp.q) :
              i # j => (ListedBefore(products, resp.q, i, j)
                          # ListedBefore(products, resp.q, j, i))

\* C9 witness: two products of equal rank under a search, the older one first.
C9_Witness ==
    /\ Listed /\ SearchGiven(resp.q)
    /\ Len(resp.items) = 2
    /\ TsRank(products[resp.items[1]], TsQuery(resp.q.search))
         = TsRank(products[resp.items[2]], TsQuery(resp.q.search))
    /\ resp.items[1] < resp.items[2]

\* The number of matching products listed before product i.
ListPosition(ps, q, i) ==
    Cardinality({j \in MatchingProducts(ps, q) : ListedBefore(ps, q, j, i)})

\* C10: the items are exactly the elements at positions (page-1)*page_size up
\* to (page-1)*page_size + page_size - 1 of the ordered list of matching active
\* products: at most page_size of them, none when the offset is at or beyond
\* total, and the pages 1, 2, ... of one page_size hold every matching product
\* exactly once.
C10_PageIsSlice ==
    Listed =>
        LET q == resp.q
            first == (q.page - 1) * q.page_size
            matching == MatchingProducts(products, q)
            pages == [pg \in 1..(MaxProducts + 1) |->
                        ListProducts(products, [q EXCEPT !.page = pg]).items]
        IN /\ Len(resp.items) <= q.page_size
           /\ \A k \in DOMAIN resp.items :
                 /\ resp.items[k] \in matching
                 /\ ListPosition(products, q, resp.items[k]) = first + k - 1
           /\ \A i \in matching :
                 ( /\ ListPosition(products, q, i) >= first
                   /\ ListPosition(products, q, i) < first + q.page_size )
                 => \E k \in DOMAIN resp.items : resp.items[k] = i
           /\ first >= resp.total => resp.items = << >>
           /\ \A i \in matching :
                 Cardinality({pg \in DOMAIN pages :
                                 \E k \in DOMAIN pages[pg] : pages[pg][k] = i}) = 1

\* C10 witness: page 2 of page_size 1 holds the second of two matching products.
C10_Witness ==
    /\ Listed
    /\ resp.q.page = 2 /\ resp.q.page_size = 1
    /\ resp.total = 2 /\ Len(resp.items) = 1
    /\ ListPosition(products, resp.q, resp.items[1]) = 1

\* ----------------------------------------------------------- cart: get_cart

\* A Decimal: coef * 10^exp.
Decimal(coef, exp) == [coef |-> coef, exp |-> exp]

RECURSIVE Pow10(_)
Pow10(n) == IF n = 0 THEN 1 ELSE 10 * Pow10(n - 1)

\* Decimal.__mul__: the coefficients multiply, the exponents add (the context's
\* 28 digits are never reached).
DecMul(a, b) == Decimal(a.coef * b.coef, a.exp + b.exp)

\* Decimal.__add__: both operands are brought to the smaller exponent.
DecAdd(a, b) ==
    LET e == IF a.exp < b.exp THEN a.exp ELSE b.exp
    IN Decimal(a.coef * Pow10(a.exp - e) + b.coef * Pow10(b.exp - e), e)

\* The price column of a row as the Decimal the ORM returns.
PriceOf(row) == Decimal(row.price, -2)

\* The rows of every user: the statement without its WHERE clause.
CartItemsOf_AllUsers(c, user_id) == c

\* line 36: select(CartItem).where(user_id == current_user.id).order_by(id)
CartItemsOf(c, user_id) == SelectSeq(c, LAMBDA row : row.user_id = user_id)

\* line 38: sum(item.quantity for item in cart_items)
RECURSIVE SumQuantity(_)
SumQuantity(items) ==
    IF items = << >> THEN 0 ELSE Head(items).quantity + SumQuantity(Tail(items))

\* line 39: Decimal(item.quantity) * item.product.price, item.product being the
\* row the cart row's product_id names, whatever its is_active flag.
LinePrice(item, ps) ==
    DecMul(Decimal(item.quantity, 0), PriceOf(ps[item.product_id]))

\* line 40: sum(price_items, Decimal("0.00")), a fold from the left.
RECURSIVE SumPrices(_, _, _)
SumPrices(items, ps, start) ==
    IF items = << >> THEN start
    ELSE SumPrices(Tail(items), ps, DecAdd(start, LinePrice(Head(items), ps)))

\* The Cart response on tables c and ps.
CartOf(c, ps, user_id) ==
    [op |-> "get_cart", status |-> 200, user_id |-> user_id,
     items |-> CartItemsOf(c, user_id),
     total_quantity |-> SumQuantity(CartItemsOf(c, user_id)),
     total_price |-> SumPrices(CartItemsOf(c, user_id), ps, Decimal(0, -2))]

\* GET /cart/
GetCart(user_id) ==
    /\ resp' = CartOf(cart, products, user_id)
    /\ UNCHANGED <<categories, products, reviews, cart, reqs, inflight>>

\* ---------------------------------------------- specification SpecCartView

\* The updates seller 4 sends for its products: a new price, and one that names
\* the soft-deleted category.
PriceUpdates ==
    { [seller_id |-> 4, price |-> 999, stock |-> 1, category_id |-> 1,
       tsv |-> NoTerms],
      [seller_id |-> 4, price |-> 999, stock |-> 1, category_id |-> 3,
       tsv |-> NoTerms] }

\* The quantities the buyers of this specification add and set (0 is refused),
\* and the product ids the seller names: product 1, the soft-deleted product 3
\* and an id with no row.
AddedQuantities == {0, 3}
SetQuantities == {0, 2}
SellerProductIds == {1, Len(SeedProducts), Len(SeedProducts) + 1}

\* The buyers fill and read their carts while the seller reprices and
\* soft-deletes a product in them.
NextCartView ==
    \/ Idle /\ \E u \in Users, p \in RequestProductIds, q \in AddedQuantities :
                  AddItem(u, p, q)
    \/ Idle /\ \E u \in Users, p \in RequestProductIds, q \in SetQuantities :
                  UpdateItem(u, p, q)
    \/ Idle /\ \E sub \in PriceUpdates, p \in SellerProductIds :
                  UpdateProduct(sub, p)
    \/ Idle /\ \E u \in Sellers, p \in SellerProductIds : DeleteProduct(u, p)
    \/ Idle /\ \E u \in Users : GetCart(u)
    \/ Respond

SpecCartView == Init /\ [][NextCartView]_vars

\* ------------------------------------------------------ claims: cart totals

\* The indices of the cart rows of a user.
UserRows(c, user_id) == {i \in DOMAIN c : c[i].user_id = user_id}

RECURSIVE QuantityOfRows(_, _)
QuantityOfRows(c, idx) ==
    IF idx = {} THEN 0
    ELSE LET i == CHOOSE j \in idx : TRUE
         IN c[i].quantity + QuantityOfRows(c, idx \ {i})

\* The sum of quantity times the product's price over rows idx, in hundredths.
RECURSIVE HundredthsOfRows(_, _, _)
HundredthsOfRows(c, ps, idx) ==
    IF idx = {} THEN 0
    ELSE LET i == CHOOSE j \in idx : TRUE
         IN c[i].quantity * ps[c[i].product_id].price
              + HundredthsOfRows(c, ps, idx \ {i})

\* The product does not exist or has been soft-deleted.
Unavailable(ps, product_id) ==
    product_id \notin DOMAIN ps \/ ~ps[product_id].is_active

\* C11: get_cart returns total_quantity equal to the sum of the quantities of
\* the user's rows and total_price equal to the exact two-digit decimal sum over
\* those rows of quantity times the product's price in the table as it is read
\* (so after a price change, the new price); one row of quantity 3 at price
\* 9.99 gives exactly 29.97.
C11_CartTotals ==
    resp.op = "get_cart" =>
        /\ resp.total_quantity
             = QuantityOfRows(cart, UserRows(cart, resp.user_id))
        /\ resp.total_price
             = Decimal(HundredthsOfRows(cart, products,
                                        UserRows(cart, resp.user_id)), -2)
        /\ \A i \in UserRows(cart, resp.user_id) :
              ( /\ UserRows(cart, resp.user_id) = {i}
                /\ cart[i].quantity = 3
                /\ products[cart[i].product_id].price = 999 )
              => resp.total_price = Decimal(2997, -2)

\* C11 witness: a cart read by its user whose only row is 3 of product 1, which
\* the seller has repriced from 0.05 to 9.99, while the other user holds rows
\* too: 29.97.
C11_Witness ==
    /\ resp.op = "get_cart"
    /\ resp.total_quantity = 3
    /\ resp.total_price = Decimal(2997, -2)
    /\ products[1].price = 999 /\ SeedProducts[1].price # 999
    /\ Len(resp.items) = 1 /\ resp.items[1].product_id = 1
    /\ Len(cart) > 1

\* C12: in get_cart a row whose product is soft-deleted or missing at read
\* time adds zero to total_price, while it is still in items and its quantity
\* still counts in total_quantity.
C12_InactiveProductCountsZero ==
    resp.op = "get_cart" =>
        /\ resp.total_price.coef * Pow10(resp.total_price.exp + 2)
             = HundredthsOfRows(cart, products,
                   {i \in UserRows(cart, resp.user_id) :
                       ~Unavailable(products, cart[i].product_id)})
        /\ Len(resp.items) = Cardinality(UserRows(cart, resp.user_id))
        /\ resp.total_quantity
             = QuantityOfRows(cart, UserRows(cart, resp.user_id))

\* C13: add_item for a product id with no row or with a soft-deleted product
\* fails with NotFoundError and leaves every cart row as it was, also when the
\* user holds a row of that product.
C13_AddItemUnavailable ==
    [][ ( /\ resp'.op = "add_item"
          /\ resp'.quantity >= 1
          /\ Unavailable(products, resp'.product_id) )
        => /\ resp'.status = 404
           /\ cart' = cart ]_vars

\* C13 witness: add_item has been refused for a soft-deleted product of which
\* the user holds a row.
C13_Witness ==
    /\ resp.op = "add_item" /\ resp.status = 404
    /\ resp.quantity >= 1
    /\ resp.product_id \in DOMAIN products
    /\ CartRows(cart, resp.user_id, resp.product_id) # {}

\* C14 as stated: update_item with q >= 1 sets the quantity of the user's
\* existing row of the product to exactly q, and fails with NotFoundError,
\* leaving the cart unchanged, when the user has no row of the product.
C14_UpdateSetsQuantity ==
    [][ (resp'.op = "update_item" /\ resp'.quantity >= 1) =>
          IF CartRows(cart, resp'.user_id, resp'.product_id) # {}
          THEN /\ resp'.status = 200
               /\ RowQuantity(cart', resp'.user_id, resp'.product_id)
                    = resp'.quantity
          ELSE /\ resp'.status = 404
               /\ cart' = cart ]_vars

\* C14 amended: update_item with q >= 1 for a product that exists and is
\* active sets the quantity of the user's existing row to exactly q, whatever
\* it was, and changes no other row; it fails with NotFoundError, leaving the
\* cart unchanged and creating no row, when the user has no row of the product
\* or the product does not exist or is soft-deleted.
C14_UpdateSetsQuantityOfAvailable ==
    [][ (resp'.op = "update_item" /\ resp'.quantity >= 1) =>
          IF /\ CartRows(cart, resp'.user_id, resp'.product_id) # {}
             /\ ~Unavailable(products, resp'.product_id)
          THEN /\ resp'.status = 200
               /\ Len(cart') = Len(cart)
               /\ \A i \in DOMAIN cart :
                     IF i \in CartRows(cart, resp'.user_id, resp'.product_id)
                     THEN cart'[i] = [cart[i] EXCEPT !.quantity = resp'.quantity]
                     ELSE cart'[i] = cart[i]
          ELSE /\ resp'.status = 404
               /\ cart' = cart ]_vars

\* C14 witness: update_item has set a row to 2 (add_item creates rows of 3)
\* next to a row it left alone.
C14_Witness ==
    /\ resp.op = "update_item" /\ resp.status = 200
    /\ RowQuantity(cart, resp.user_id, resp.product_id) = 2
    /\ \E i \in DOMAIN cart : cart[i].quantity # 2

\* --------------------------------------------- claims: remove_item, clear_cart

\* The rows of c that are not rows of user_id, in order.
RowsOfOthers(c, user_id) == SelectSeq(c, LAMBDA row : row.user_id # user_id)

\* C15: remove_item deletes the user's row of the product and no other row;
\* without such a row it fails with NotFoundError and the cart table is
\* unchanged; after a successful remove_item the user has no row of the
\* product, so a second remove_item of it fails with NotFoundError.
C15_RemoveDeletesOneRow ==
    [][ resp'.op = "remove_item" =>
          IF CartRows(cart, resp'.user_id, resp'.product_id) # {}
          THEN /\ resp'.status = 204
               /\ Len(cart') = Len(cart) - 1
               /\ CartRows(cart', resp'.user_id, resp'.product_id) = {}
               /\ \A i \in DOMAIN cart :
                     i \notin CartRows(cart, resp'.user_id, resp'.product_id)
                       => \E j \in DOMAIN cart' : cart'[j] = cart[i]
          ELSE /\ resp'.status = 404
               /\ cart' = cart ]_vars

\* C15 witness: remove_item has deleted a row of a user who holds another row.
C15_Witness ==
    /\ resp.op = "remove_item" /\ resp.status = 204
    /\ CartRows(cart, resp.user_id, resp.product_id) = {}
    /\ UserRows(cart, resp.user_id) # {}

\* C16: clear_cart removes every row of the user and leaves the rows of every
\* other user as they were; it succeeds on an empty cart, and a second
\* clear_cart changes nothing.
C16_ClearRemovesOwnRows ==
    [][ resp'.op = "clear_cart" =>
          /\ resp'.status = 204
          /\ UserRows(cart', resp'.user_id) = {}
          /\ cart' = RowsOfOthers(cart, resp'.user_id)
          /\ ClearRows(cart', resp'.user_id) = cart' ]_vars

\* C16 witness: clear_cart has emptied a cart while the other user holds two
\* rows.
C16_Witness ==
    /\ resp.op = "clear_cart" /\ resp.status = 204
    /\ Len(cart) = 2
    /\ \A i \in DOMAIN cart : cart[i].user_id # resp.user_id

\* ------------------------------------------------ specification SpecSeller

\* What the sellers send to create_product and update_product: the submissions
\* of the catalog and one that names a category id with no row.
SellerRequests ==
    Submissions \cup
    { [seller_id |-> 5, price |-> 5, stock |-> 1,
       category_id |-> Len(SeedCategories) + 1, tsv |-> Tsv(0, 1)] }

\* The sellers create, update and soft-delete products, their own and each
\* other's.
NextSeller ==
    \/ Idle /\ \E sub \in SellerRequests : CreateProduct(sub)
    \/ Idle /\ \E sub \in SellerRequests, p \in 1..(MaxProducts + 1) :
                  UpdateProduct(sub, p)
    \/ Idle /\ \E u \in Sellers, p \in 1..(MaxProducts + 1) : DeleteProduct(u, p)
    \/ Respond

SpecSeller == InitCatalog /\ [][NextSeller]_vars

\* ---------------------------------------------------- claims: product writes

\* The id names no category or a soft-deleted one.
NoActiveCategory(cs, category_id) ==
    category_id \notin DOMAIN cs \/ ~cs[category_id].is_active

\* C17: create_product, and update_product by the seller of an active product,
\* with a category_id that names no category or a soft-deleted one fail with
\* NotFoundError, the same error in both cases, and leave the product table
\* unchanged.
C17_BadCategoryNotFound ==
    [][ ( /\ resp'.op \in {"create_product", "update_product"}
          /\ NoActiveCategory(categories, resp'.category_id)
          /\ resp'.op = "update_product" =>
                /\ ~Unavailable(products, resp'.product_id)
                /\ products[resp'.product_id].seller_id = resp'.seller_id )
        => /\ resp'.status = 404
           /\ products' = products ]_vars

\* C18: update_product and delete_product answer a seller that is not the
\* product's seller with ForbiddenError whenever a row of that id exists, active
\* or soft-deleted, and with NotFoundError only when no row of that id exists.
C18_OwnershipBeforeVisibility ==
    resp.op \in {"update_product", "delete_product"} =>
        /\ ( /\ resp.product_id \in DOMAIN products
             /\ products[resp.product_id].seller_id # resp.seller_id )
           => resp.status = 403
        /\ resp.status = 404 => resp.product_id \notin DOMAIN products

\* ------------------------------------------------ categories: delete_category

\* lines 116-120: update(Category).where(id == category_id).values(is_active=False)
\* reaching the children of the category as well.
DeleteCategoryWrite_Cascade(cs, category_id) ==
    [i \in DOMAIN cs |->
        IF i = category_id \/ cs[i].parent_id = category_id
        THEN [cs[i] EXCEPT !.is_active = FALSE] ELSE cs[i]]

\* lines 116-120: update(Category).where(id == category_id).values(is_active=False)
DeleteCategoryWrite(cs, category_id) ==
    [cs EXCEPT ![category_id].is_active = FALSE]

\* The response of a read: the id the request named (0: none) and the ids of
\* the rows returned.
ReadResp(op, status, key, rows) ==
    [op |-> op, status |-> status, key |-> key, rows |-> rows]

\* DELETE /categories/{category_id}: the soft delete; the route asks for no
\* user.
DeleteCategory(category_id) ==
    /\ IF ~CategoryActive(categories, category_id)
       THEN /\ resp' = ReadResp("delete_category", 404, category_id, {})
            /\ UNCHANGED categories
       ELSE /\ categories' = DeleteCategoryWrite(categories, category_id)
            /\ resp' = ReadResp("delete_category", 200, category_id,
                                {category_id})
    /\ UNCHANGED <<products, reviews, cart, reqs, inflight>>

\* ------------------------------------------------------ listings and lookups

\* select(Category).where(Category.is_active == True)
ActiveCategories(cs) == {i \in DOMAIN cs : cs[i].is_active}

\* GET /categories/
GetAllCategories ==
    /\ resp' = ReadResp("get_all_categories", 200, 0, ActiveCategories(categories))
    /\ UNCHANGED <<categories, products, reviews, cart, reqs, inflight>>

\* select(Product).where(category_id == category_id, is_active == True)
ProductsOfCategory(ps, category_id) ==
    {i \in DOMAIN ps : ps[i].category_id = category_id /\ ps[i].is_active}

\* GET /products/category/{category_id}
GetProductsByCategory(category_id) ==
    /\ resp' = IF ~CategoryActive(categories, category_id)
               THEN ReadResp("get_products_by_category", 404, category_id, {})
               ELSE ReadResp("get_products_by_category", 200, category_id,
                             ProductsOfCategory(products, category_id))
    /\ UNCHANGED <<categories, products, reviews, cart, reqs, inflight>>

\* GET /products/{product_id}: the product, then its category, both active.
GetProduct(product_id) ==
    /\ resp' = IF ~EnsureProductAvailable(products, product_id)
               THEN ReadResp("get_product", 404, product_id, {})
               ELSE IF ~CategoryActive(categories,
                                       products[product_id].category_id)
               THEN ReadResp("get_product", 400, product_id, {})
               ELSE ReadResp("get_product", 200, product_id, {product_id})
    /\ UNCHANGED <<categories, products, reviews, cart, reqs, inflight>>

\* select(Review).where(Review.is_active == True)
VisibleReviews(rs) == {i \in DOMAIN rs : rs[i].is_active}

\* GET /reviews/
GetAllReviews ==
    /\ resp' = ReadResp("get_all_reviews", 200, 0, VisibleReviews(reviews))
    /\ UNCHANGED <<categories, products, reviews, cart, reqs, inflight>>

\* The reviews of the product, soft-deleted ones included.
ReviewsOfProduct_Any(rs, product_id) ==
    {i \in DOMAIN rs : rs[i].product_id = product_id}

\* select(Review).where(product_id == product.id, is_active == True)
ReviewsOfProduct(rs, product_id) ==
    {i \in DOMAIN rs : rs[i].product_id = product_id /\ rs[i].is_active}

\* GET /reviews/products/{product_id}
GetReviewByProduct(product_id) ==
    /\ resp' = IF ~EnsureProductAvailable(products, product_id)
               THEN ReadResp("get_review_by_product", 404, product_id, {})
               ELSE ReadResp("get_review_by_product", 200, product_id,
                             ReviewsOfProduct(reviews, product_id))
    /\ UNCHANGED <<categories, products, reviews, cart, reqs, inflight>>

\* -------------------------------------------- specification SpecVisibility

\* The listing requests of this specification: the first page, with and without
\* a category and a search.
PlainQueries ==
    {q \in Queries :
        /\ q.page = 1 /\ q.page_size = MaxProducts
        /\ q.min_price = Absent /\ q.max_price = Absent
        /\ q.in_stock = "None" /\ q.created_at = Absent
        /\ q.seller_id = Absent}

\* Buyer 1 reviews the products, categories, products and reviews are
\* soft-deleted, and the listings and lookups read the tables in between.
NextVisibility ==
    \/ Idle /\ \E c \in 1..(Len(SeedCategories) + 1) : DeleteCategory(c)
    \/ Idle /\ \E u \in Sellers, p \in RequestProductIds : DeleteProduct(u, p)
    \/ Idle /\ \E p \in RequestProductIds : CreateReviewInsert(1, p, 4)
    \/ CreateReviewRating
    \/ Idle /\ \E r \in 1..(MaxReviews + 1) : DeleteReview(1, r)
    \/ Idle /\ GetAllCategories
    \/ Idle /\ \E q \in PlainQueries : GetAllProducts(q)
    \/ Idle /\ \E c \in 1..(Len(SeedCategories) + 1) : GetProductsByCategory(c)
    \/ Idle /\ \E p \in RequestProductIds : GetProduct(p)
    \/ Idle /\ GetAllReviews
    \/ Idle /\ \E p \in RequestProductIds : GetReviewByProduct(p)
    \/ Respond

SpecVisibility == Init /\ [][NextVisibility]_vars

\* -------------------------------------------------------- claims: visibility

\* C19: delete_category sets is_active to false on the named category only:
\* every field of every other category (its children among them), the other
\* fields of the category itself and every product row are unchanged by it.
C19_DeleteCategoryDoesNotCascade ==
    [][ (resp'.op = "delete_category" /\ resp'.status = 200) =>
          /\ DOMAIN categories' = DOMAIN categories
          /\ categories'[resp'.key]
               = [categories[resp'.key] EXCEPT !.is_active = FALSE]
          /\ \A c \in DOMAIN categories :
                c # resp'.key => categories'[c] = categories[c]
          /\ products' = products ]_vars

\* C19 witness: category 1 has been soft-deleted while its child category 2 and
\* a product in it are active.
C19_Witness ==
    /\ resp.op = "delete_category" /\ resp.status = 200 /\ resp.key = 1
    /\ categories[2].parent_id = 1 /\ categories[2].is_active
    /\ \E p \in DOMAIN products :
          products[p].category_id = 1 /\ products[p].is_active

\* C20: get_all_categories, get_all_products, get_products_by_category,
\* get_product, get_all_reviews and get_review_by_product return only rows with
\* is_active = true: no soft-deleted category, product or review is among the
\* rows of any of their responses.
C20_OnlyActiveRowsReturned ==
    /\ resp.op = "get_all_categories" =>
          \A c \in resp.rows : categories[c].is_active
    /\ resp.op \in {"get_products_by_category", "get_product"} =>
          \A p \in resp.rows : products[p].is_active
    /\ resp.op = "get_all_products" =>
          \A k \in DOMAIN resp.items : products[resp.items[k]].is_active
    /\ resp.op \in {"get_all_reviews", "get_review_by_product"} =>
          \A r \in resp.rows : reviews[r].is_active

\* C20 witness: the reviews of a product have been listed without one of its
\* reviews, which is soft-deleted.
C20_Witness ==
    /\ resp.op = "get_review_by_product" /\ resp.status = 200
    /\ resp.rows # {}
    /\ \E r \in DOMAIN reviews :
          /\ reviews[r].product_id = resp.key
          /\ ~reviews[r].is_active
          /\ r \notin resp.rows

\* ------------------------------- categories: create_category, update_category

\* A CategoryCreate payload is its parent_id: Absent when the field was not
\* sent, 0 for null, else a category id (the name plays no part).
ParentIds == {Absent} \cup (0..(MaxCategories + 1))

\* lines 53-55: CategoryModel(**category.model_dump()); a parent_id that was
\* not sent is the default None.
CreateCategoryWrite(cs, parent_id) ==
    Append(cs, [parent_id |-> IF parent_id = Absent THEN 0 ELSE parent_id,
                is_active |-> TRUE])

\* POST /categories/
CreateCategory(parent_id) ==
    /\ Len(categories) < MaxCategories
    /\ IF parent_id \notin {Absent, 0} /\ ~CategoryActive(categories, parent_id)
       THEN /\ resp' = ReadResp("create_category", 400, 0, {})
            /\ UNCHANGED categories
       ELSE /\ categories' = CreateCategoryWrite(categories, parent_id)
            /\ resp' = ReadResp("create_category", 201, Len(categories) + 1,
                                {Len(categories) + 1})
    /\ UNCHANGED <<products, reviews, cart, reqs, inflight>>

\* lines 79-88: the checks on a parent_id that is not None: the parent is an
\* active category and is not the category itself.
ParentRefused(cs, category_id, parent_id) ==
    /\ parent_id \notin {Absent, 0}
    /\ \/ ~CategoryActive(cs, parent_id)
       \/ parent_id = category_id

\* lines 92-97: update(Category).where(id == category_id).values(**update_data),
\* update_data being the fields that were sent (exclude_unset=True).
UpdateCategoryWrite(cs, category_id, parent_id) ==
    IF parent_id = Absent THEN cs
    ELSE [cs EXCEPT ![category_id].parent_id = parent_id]

\* PUT /categories/{category_id}
UpdateCategory(category_id, parent_id) ==
    /\ IF ~CategoryActive(categories, category_id)
       THEN /\ resp' = ReadResp("update_category", 404, category_id, {})
            /\ UNCHANGED categories
       ELSE IF ParentRefused(categories, category_id, parent_id)
       THEN /\ resp' = ReadResp("update_category", 400, category_id, {})
            /\ UNCHANGED categories
       ELSE /\ categories' = UpdateCategoryWrite(categories, category_id, parent_id)
            /\ resp' = ReadResp("update_category", 200, category_id,
                                {category_id})
    /\ UNCHANGED <<products, reviews, cart, reqs, inflight>>

\* ---------------------------------------------- specification SpecCategory

NextCategory ==
    \/ Idle /\ \E parent \in ParentIds : CreateCategory(parent)
    \/ Idle /\ \E c \in 1..(MaxCategories + 1), parent \in ParentIds :
                  UpdateCategory(c, parent)
    \/ Idle /\ \E c \in 1..(MaxCategories + 1) : DeleteCategory(c)
    \/ Idle /\ GetAllCategories
    \/ Respond

SpecCategory == Init /\ [][NextCategory]_vars

\* ------------------------------------------------------- claims: categories

\* The category reached from c by n steps along parent_id (0: past a root).
RECURSIVE Ancestor(_, _, _)
Ancestor(cs, c, n) ==
    IF n = 0 \/ c = 0 THEN c ELSE Ancestor(cs, cs[c].parent_id, n - 1)

\* C22: after any sequence of create_category, update_category and
\* delete_category calls the parent_id chain of every category is acyclic: it
\* ends at a root within as many steps as there are categories, an
\* update_category that would make a category its own ancestor having been
\* rejected.
C22_ParentChainAcyclic ==
    \A c \in DOMAIN categories : Ancestor(categories, c, Len(categories)) = 0

\* ------------------------------------------------- claims: cart quantities

\* C24: every cart row has quantity >= 1 in every reachable state: add_item and
\* update_item refuse a requested quantity below 1 with a validation error and
\* without touching the cart, and no accepted add_item or update_item leaves a
\* row of quantity 0 or less.
C24_QuantityAtLeastOne ==
    [][ /\ \A i \in DOMAIN cart' : cart'[i].quantity >= 1
        /\ (resp'.op \in {"add_item", "update_item"} /\ resp'.quantity < 1)
             => (resp'.status = 422 /\ cart' = cart) ]_vars

\* C24 witness: a request for quantity 0 on a row the user holds has been
\* refused, the row keeping its quantity.
C24_Witness ==
    /\ resp.op \in {"add_item", "update_item"} /\ resp.status = 422
    /\ resp.quantity = 0
    /\ RowQuantity(cart, resp.user_id, resp.product_id) >= 1

\* ------------------------------ update_product, statement by statement

\* lines 221-230: the product is loaded and its seller compared; the request
\* then holds the loaded row (reqs) until its UPDATE.
UpdateProductLoad(sub, product_id) ==
    /\ reqs = << >>
    /\ IF ~LoadProduct(products, product_id)
       THEN /\ resp' = ProductResp("update_product", 404, sub.seller_id,
                                   product_id, sub.category_id)
            /\ UNCHANGED reqs
       ELSE IF products[product_id].seller_id # sub.seller_id
       THEN /\ resp' = ProductResp("update_product", 403, sub.seller_id,
                                   product_id, sub.category_id)
            /\ UNCHANGED reqs
       ELSE /\ reqs' = << [sub |-> sub, product_id |-> product_id] >>
            /\ UNCHANGED resp
    /\ UNCHANGED <<categories, products, reviews, cart, inflight>>

\* lines 232-250: the category is looked up, then the UPDATE by primary key
\* and the commit, on the tables as they are by then.
UpdateProductCommit ==
    /\ reqs # << >>
    /\ IF ~CategoryActive(categories, reqs[1].sub.category_id)
       THEN /\ resp' = ProductResp("update_product", 400, reqs[1].sub.seller_id,
                                   reqs[1].product_id, reqs[1].sub.category_id)
            /\ UNCHANGED products
       ELSE /\ products' = UpdateProductWrite(products, reqs[1].product_id,
                                              reqs[1].sub)
            /\ resp' = ProductResp("update_product", 200, reqs[1].sub.seller_id,
                                   reqs[1].product_id, reqs[1].sub.category_id)
    /\ reqs' = << >>
    /\ UNCHANGED <<categories, reviews, cart, inflight>>

\* --------------------------------------------------- specification SpecShop

\* What seller 4 submits.
ShopSubmissions == {sub \in Submissions : sub.seller_id = 4}

\* The write handlers of the four routers on one store: seller 4 creates and
\* updates products, the sellers soft-delete them, buyer 1 reviews product 1
\* and fills a cart, and categories are created, moved and soft-deleted.  An update_product
\* and a create_review overlap with the requests that follow them.
NextShop ==
    \/ Idle /\ \E parent \in {1} : CreateCategory(parent)
    \/ Idle /\ \E c \in {2}, parent \in {0} : UpdateCategory(c, parent)
    \/ Idle /\ \E c \in {2} : DeleteCategory(c)
    \/ Idle /\ \E sub \in ShopSubmissions : CreateProduct(sub)
    \/ Idle /\ \E sub \in ShopSubmissions, p \in {1} : UpdateProductLoad(sub, p)
    \/ UpdateProductCommit
    \/ Idle /\ \E u \in Sellers, p \in {1, 2} : DeleteProduct(u, p)
    \/ Idle /\ \E p \in {1} : CreateReviewInsert(1, p, 4)
    \/ CreateReviewRating
    \/ Idle /\ \E r \in {1, 2} : DeleteReview(1, r)
    \/ Idle /\ \E q \in AddedQuantities : AddItem(1, 1, q)
    \/ Idle /\ \E q \in SetQuantities : UpdateItem(1, 1, q)
    \/ Idle /\ RemoveItem(1, 1)
    \/ Idle /\ ClearCart(1)
    \/ Respond

SpecShop == InitCatalog /\ [][NextShop]_vars

\* ----------------------------------------------------- claims: whole store

\* C21: soft deletion is permanent: a category, product or review whose
\* is_active flag is false keeps it false through every create, update and
\* delete operation of every router.
C21_SoftDeleteIsPermanent ==
    [][ /\ \A c \in DOMAIN categories :
              ~categories[c].is_active => ~categories'[c].is_active
        /\ \A p \in DOMAIN products :
              ~products[p].is_active => ~products'[p].is_active
        /\ \A r \in DOMAIN reviews :
              ~reviews[r].is_active => ~reviews'[r].is_active ]_vars

\* C21 witness: an update_product that had loaded its product before the
\* seller soft-deleted it has written the row, which is still soft-deleted, in
\* a store with a soft-deleted review and a soft-deleted category 2.
C21_Witness ==
    /\ resp.op = "update_product" /\ resp.status = 200
    /\ ~products[resp.product_id].is_active
    /\ \E r \in DOMAIN reviews : ~reviews[r].is_active
    /\ ~categories[2].is_active

\* C23: the rating of an existing product changes only in the recomputation of
\* create_review and delete_review: every step of create_product,
\* update_product, delete_product and of the cart and category operations
\* leaves the rating of every existing product as it was.
C23_RatingWrittenByReviewsOnly ==
    [][ \A p \in DOMAIN products :
            products'[p].rating # products[p].rating
              => resp'.op \in {"create_review", "delete_review"} ]_vars

\* C23 witness: update_product has rewritten a product that has a rating from
\* its reviews, while the buyer holds a cart row.
C23_Witness ==
    /\ resp.op = "update_product" /\ resp.status = 200
    /\ products[resp.product_id].rating # ZeroRating
    /\ products[resp.product_id].price = 10
    /\ cart # << >>

====
